---- MODULE Spec2Model ----
(***************************************************************************)
(* HireAgent: the Home page (frontend/pages/index.tsx), the ResumeUpload,  *)
(* JobDescriptionForm and ProfileUrlsForm components, the score views of   *)
(* AnalysisResults and the backend analysis pipeline, as state machines.   *)
(*                                                                         *)
(* Optional values (null / undefined in the source) are sequences of       *)
(* length at most one: None is <<>>, Some(x) is <<x>>.                     *)
(*                                                                         *)
(* A string whose content does not matter is modelled by its shape         *)
(* [lead, core, trail]: lead and trail count the leading and trailing      *)
(* whitespace characters, core counts the characters from the first to the *)
(* last non-whitespace character (0 when there is none).                   *)
(***************************************************************************)
EXTENDS Integers, Sequences, FiniteSets, Bags, TLC

VARIABLES
    file,            \* Home: useState<File | null>
    jobDescription,  \* Home: useState('')
    analysis,        \* Home: useState<AnalysisState>
    inflight,        \* Home: pending /api/comprehensive-analysis requests
    isUploading,     \* ResumeUpload: useState(false)
    uploadedFile,    \* ResumeUpload: useState<File | null>(null)
    uploads,         \* ResumeUpload: pending /api/upload-resume requests (a bag of files)
    calls,           \* the props callbacks the last handler invoked
    stage,           \* backend: state of the parse, resolve and score stages
    fetches,         \* backend: state of the three profile fetches
    settleOrder,     \* backend: the fetches in the order they settled
    outcome,         \* backend: "none", "running", "success" or "failed"
    enrichment,      \* backend: profile_enrichment of the returned analysis
    score_breakdown, \* the ScoreBreakdown of the analysis on display
    view,            \* what AnalysisResults shows of it
    urlForm,         \* ProfileUrlsForm: useForm values, errors, isSubmitted
    jdForm,          \* JobDescriptionForm: useForm values, errors, isValidating
    jdPending,       \* JobDescriptionForm: pending /api/validate-job-description requests
    lastValidation,  \* the last validation answered with details since the form was edited
    profile_enrichment, \* AnalysisResults: results.profile_enrichment of the analysis on display
    enrichmentTab,   \* what the Profile Enrichment tab shows of it
    currentStep,     \* ProgressSteps: the currentStep prop
    progress,        \* what ProgressSteps shows for it
    event,           \* the last handler that ran, with its input
    toasts           \* the toasts the last handler emitted

homeVars == <<file, jobDescription, analysis, inflight>>
uploadVars == <<isUploading, uploadedFile, uploads>>
pipeVars == <<stage, fetches, settleOrder, outcome, enrichment>>
scoreVars == <<score_breakdown, view>>
formVars == <<urlForm, jdForm, jdPending, lastValidation>>
tabVars == <<profile_enrichment, enrichmentTab>>
stepVars == <<currentStep, progress>>
vars == <<file, jobDescription, analysis, inflight,
          isUploading, uploadedFile, uploads, calls,
          stage, fetches, settleOrder, outcome, enrichment,
          score_breakdown, view,
          urlForm, jdForm, jdPending, lastValidation,
          profile_enrichment, enrichmentTab, currentStep, progress,
          event, toasts>>

None == <<>>
Some(x) == <<x>>

\* ----------------------------------------------------------------- bounds
\* Most whitespace, leading and trailing together, around an entered text.
MaxPad == 1
\* How many text lengths at and above the program's limit.
Slack == 1

\* ---------------------------------------------------------------- strings
Str(l, c, t) == [lead |-> l, core |-> c, trail |-> t]
EmptyStr == Str(0, 0, 0)
\* String.prototype.length
StrLen(s) == s.lead + s.core + s.trail
\* String.prototype.trim, as a forgetful variant: the whitespace is kept
TrimKeepsWhitespace(s) == Str(0, StrLen(s), 0)
\* String.prototype.trim as used on jobDescription
Trim(s) == Str(0, s.core, 0)

\* ------------------------------------------------------------------ files
PDF == "application/pdf"
DOCX == "application/vnd.openxmlformats-officedocument.wordprocessingml.document"
TXT == "text/plain"
validTypes == {PDF, DOCX, TXT}
MaxFileSize == 10 * 1024 * 1024
MinJobDescriptionLength == 50

FileTypes == validTypes \cup {"image/png"}
FileSizes == MaxFileSize .. (MaxFileSize + 1)
Files == [type : FileTypes, size : FileSizes]

\* The texts the textarea can hold; a text with no non-whitespace character
\* has one shape, Str(n, 0, 0).
JobDescriptions ==
    UNION {{Str(l, c, t) : t \in 0..(MaxPad - l),
                           c \in (MinJobDescriptionLength - 1) ..
                                 (MinJobDescriptionLength + Slack - 1)}
             : l \in 0..MaxPad}
      \cup {Str(l, 0, 0) : l \in 0..MaxPad}

\* ------------------------------------------------------------------ toasts
Toast(k, m) == [kind |-> k, msg |-> m]
ErrorToasts(ts) == {i \in 1..Len(ts) : ts[i].kind = "error"}
SuccessToasts(ts) == {i \in 1..Len(ts) : ts[i].kind = "success"}

Event(o, a) == [op |-> o, arg |-> a]

\* ------------------------------------------------------------------- Home
InitialAnalysis ==
    [analyzing |-> FALSE, results |-> None, extractedUrls |-> None,
     analysisDetails |-> None]

\* if (analysis.results) return <results view>
ResultsRendered == analysis.results # None

\* handleFileSelect with setFile ahead of the validation
handleFileSelectKeepsInvalid(selected) ==
    /\ ~ResultsRendered
    /\ event' = Event("handleFileSelect", selected)
    /\ IF selected = None
       THEN toasts' = <<>> /\ UNCHANGED homeVars
       ELSE /\ file' = selected
            /\ IF selected[1].type \notin validTypes
               THEN toasts' = <<Toast("error", "Please upload a PDF, DOCX, or TXT file")>>
               ELSE IF selected[1].size > MaxFileSize
               THEN toasts' = <<Toast("error", "File size must be less than 10MB")>>
               ELSE toasts' = <<Toast("success", "Resume uploaded successfully!")>>
            /\ UNCHANGED <<jobDescription, analysis, inflight>>

handleFileSelect(selected) ==
    /\ ~ResultsRendered
    /\ event' = Event("handleFileSelect", selected)
    /\ IF selected = None
       THEN toasts' = <<>> /\ UNCHANGED homeVars
       ELSE IF selected[1].type \notin validTypes
       THEN /\ toasts' = <<Toast("error", "Please upload a PDF, DOCX, or TXT file")>>
            /\ UNCHANGED homeVars
       ELSE IF selected[1].size > MaxFileSize
       THEN /\ toasts' = <<Toast("error", "File size must be less than 10MB")>>
            /\ UNCHANGED homeVars
       ELSE /\ file' = selected
            /\ toasts' = <<Toast("success", "Resume uploaded successfully!")>>
            /\ UNCHANGED <<jobDescription, analysis, inflight>>

\* handleDrop with the size test off by one (>= for >)
handleDropSizeOffByOne(dropped) ==
    /\ ~ResultsRendered
    /\ event' = Event("handleDrop", dropped)
    /\ IF dropped = None
       THEN toasts' = <<>> /\ UNCHANGED homeVars
       ELSE IF dropped[1].type \notin validTypes
       THEN /\ toasts' = <<Toast("error", "Please upload a PDF, DOCX, or TXT file")>>
            /\ UNCHANGED homeVars
       ELSE IF dropped[1].size >= MaxFileSize
       THEN /\ toasts' = <<Toast("error", "File size must be less than 10MB")>>
            /\ UNCHANGED homeVars
       ELSE /\ file' = dropped
            /\ toasts' = <<Toast("success", "Resume uploaded successfully!")>>
            /\ UNCHANGED <<jobDescription, analysis, inflight>>

handleDrop(dropped) ==
    /\ ~ResultsRendered
    /\ event' = Event("handleDrop", dropped)
    /\ IF dropped = None
       THEN toasts' = <<>> /\ UNCHANGED homeVars
       ELSE IF dropped[1].type \notin validTypes
       THEN /\ toasts' = <<Toast("error", "Please upload a PDF, DOCX, or TXT file")>>
            /\ UNCHANGED homeVars
       ELSE IF dropped[1].size > MaxFileSize
       THEN /\ toasts' = <<Toast("error", "File size must be less than 10MB")>>
            /\ UNCHANGED homeVars
       ELSE /\ file' = dropped
            /\ toasts' = <<Toast("success", "Resume uploaded successfully!")>>
            /\ UNCHANGED <<jobDescription, analysis, inflight>>

\* <textarea onChange={(e) => setJobDescription(e.target.value)}>
setJobDescription(value) ==
    /\ ~ResultsRendered
    /\ jobDescription' = value
    /\ event' = Event("setJobDescription", <<value>>)
    /\ toasts' = <<>>
    /\ UNCHANGED <<file, analysis, inflight>>

\* The disabled expression without analysis.analyzing
AnalyzeDisabledWhileIdleOnly ==
    \/ file = None
    \/ StrLen(Trim(jobDescription)) = 0
    \/ StrLen(Trim(jobDescription)) < MinJobDescriptionLength

\* The two guards of handleAnalyze on the job description: whether a text
\* gets past them.
handleAnalyzeAccepts(text) ==
    /\ StrLen(Trim(text)) # 0
    /\ StrLen(Trim(text)) >= MinJobDescriptionLength

\* <button disabled={...}>
AnalyzeDisabled ==
    \/ file = None
    \/ StrLen(Trim(jobDescription)) = 0
    \/ StrLen(Trim(jobDescription)) < MinJobDescriptionLength
    \/ analysis.analyzing

\* handleAnalyze up to its first await: the guards, setAnalysis and the fetch
handleAnalyze ==
    IF file = None
    THEN /\ toasts' = <<Toast("error", "Please upload a resume first")>>
         /\ UNCHANGED homeVars
    ELSE IF StrLen(Trim(jobDescription)) = 0
    THEN /\ toasts' = <<Toast("error", "Job description is required")>>
         /\ UNCHANGED homeVars
    ELSE IF StrLen(Trim(jobDescription)) < MinJobDescriptionLength
    THEN /\ toasts' = <<Toast("error", "Please provide a more detailed job description (minimum 50 characters)")>>
         /\ UNCHANGED homeVars
    ELSE /\ analysis' = [analyzing |-> TRUE, results |-> None,
                         extractedUrls |-> None, analysisDetails |-> None]
         /\ inflight' = Append(inflight,
                [file |-> file[1], job_description |-> Trim(jobDescription)])
         /\ toasts' = <<>>
         /\ UNCHANGED <<file, jobDescription>>

\* A click on the Analyze button: a disabled button delivers no click event.
ClickAnalyze ==
    /\ ~ResultsRendered
    /\ event' = Event("clickAnalyze", None)
    /\ IF AnalyzeDisabled
       THEN toasts' = <<>> /\ UNCHANGED homeVars
       ELSE handleAnalyze

\* ------------------------------------------------- the backend's responses
Response(n, o, s, d, m, a, u, ad) ==
    [net |-> n, ok |-> o, success |-> s, detail |-> d, message |-> m,
     analysis |-> a, extracted_urls |-> u, analysis_details |-> ad]

\* The CandidateAnalysis the backend computes for a request.
AnalysisOf(req) == [resume |-> req.file, job |-> req.job_description]

\* What a fetch of /api/comprehensive-analysis can settle with: the fetch
\* rejects, the body is not JSON, or the body is one of the documented shapes
\* {success, analysis, extracted_urls, analysis_details},
\* {success: false, message} and an HTTP error with detail.
Responses(req) ==
    {Response("rejected", FALSE, FALSE, None, None, None, None, None)}
    \cup {Response("unparsable", o, FALSE, None, None, None, None, None) :
            o \in BOOLEAN}
    \cup {Response("json", TRUE, TRUE, None, None, Some(AnalysisOf(req)), u, ad) :
            u \in {None, Some("extracted_urls")},
            ad \in {None, Some("analysis_details")}}
    \cup {Response("json", TRUE, FALSE, None, m, None, None, None) :
            m \in {None, Some("message")}}
    \cup {Response("json", FALSE, s, d, None, None, None, None) :
            s \in BOOLEAN, d \in {None, Some("detail")}}

\* x || fallback with the fallback taken always
OrElseFallbackOnly(x, fallback) == fallback

\* x || fallback, for an optional string
OrElse(x, fallback) == IF x = None THEN fallback ELSE x[1]

\* Thrown without the test of response.ok
ThrownIgnoresStatus(resp) ==
    IF resp.net = "rejected" THEN Some("Failed to fetch")
    ELSE IF resp.net = "unparsable" THEN Some("Unexpected token in JSON")
    ELSE IF resp.success THEN None
    ELSE Some(OrElse(resp.message, "Analysis failed"))

\* The message of the Error that handleAnalyze's try block throws for a
\* response, None when it throws nothing.
Thrown(resp) ==
    IF resp.net = "rejected" THEN Some("Failed to fetch")
    ELSE IF resp.net = "unparsable" THEN Some("Unexpected token in JSON")
    ELSE IF ~resp.ok THEN Some(OrElse(resp.detail, "Analysis failed"))
    ELSE IF resp.success THEN None
    ELSE Some(OrElse(resp.message, "Analysis failed"))

\* handleAnalyzeSettled with results taken from result.analysis_details
handleAnalyzeSettledWrongField(resp) ==
    IF Thrown(resp) = None
    THEN /\ analysis' = [analyzing |-> FALSE, results |-> resp.analysis_details,
                         extractedUrls |-> resp.extracted_urls,
                         analysisDetails |-> resp.analysis_details]
         /\ toasts' = <<Toast("success", "Analysis completed successfully!")>>
    ELSE /\ toasts' = <<Toast("error", Thrown(resp)[1])>>
         /\ analysis' = [analyzing |-> FALSE, results |-> None,
                         extractedUrls |-> None, analysisDetails |-> None]

\* handleAnalyzeSettled with a catch block that only shows the toast
handleAnalyzeSettledCatchKeepsState(resp) ==
    IF Thrown(resp) = None
    THEN /\ analysis' = [analyzing |-> FALSE, results |-> resp.analysis,
                         extractedUrls |-> resp.extracted_urls,
                         analysisDetails |-> resp.analysis_details]
         /\ toasts' = <<Toast("success", "Analysis completed successfully!")>>
    ELSE /\ toasts' = <<Toast("error", Thrown(resp)[1])>>
         /\ UNCHANGED analysis

\* handleAnalyze after its awaits: the response is read, then either the
\* results are stored or the catch block runs.
handleAnalyzeSettled(resp) ==
    IF Thrown(resp) = None
    THEN /\ analysis' = [analyzing |-> FALSE, results |-> resp.analysis,
                         extractedUrls |-> resp.extracted_urls,
                         analysisDetails |-> resp.analysis_details]
         /\ toasts' = <<Toast("success", "Analysis completed successfully!")>>
    ELSE /\ toasts' = <<Toast("error", Thrown(resp)[1])>>
         /\ analysis' = [analyzing |-> FALSE, results |-> None,
                         extractedUrls |-> None, analysisDetails |-> None]

\* AnalysisSettles with a catch block that also drops the selected file
AnalysisSettlesDropsFileOnError(i, resp) ==
    /\ event' = Event("analysisSettled", <<resp>>)
    /\ inflight' = SubSeq(inflight, 1, i - 1) \o SubSeq(inflight, i + 1, Len(inflight))
    /\ handleAnalyzeSettled(resp)
    /\ file' = IF Thrown(resp) = None THEN file ELSE None
    /\ UNCHANGED jobDescription

\* The fetch of the i-th pending request settles with resp.
AnalysisSettles(i, resp) ==
    /\ event' = Event("analysisSettled", <<resp>>)
    /\ inflight' = SubSeq(inflight, 1, i - 1) \o SubSeq(inflight, i + 1, Len(inflight))
    /\ handleAnalyzeSettled(resp)
    /\ UNCHANGED <<file, jobDescription>>

\* handleNewAnalysis with only results set to null
handleNewAnalysisClearsResultsOnly ==
    /\ ResultsRendered
    /\ file' = None
    /\ jobDescription' = EmptyStr
    /\ analysis' = [analysis EXCEPT !.results = None]
    /\ event' = Event("handleNewAnalysis", None)
    /\ toasts' = <<>>
    /\ UNCHANGED inflight

\* handleNewAnalysis without setJobDescription('')
handleNewAnalysisKeepsText ==
    /\ ResultsRendered
    /\ file' = None
    /\ analysis' = [analyzing |-> FALSE, results |-> None,
                    extractedUrls |-> None, analysisDetails |-> None]
    /\ event' = Event("handleNewAnalysis", None)
    /\ toasts' = <<>>
    /\ UNCHANGED <<jobDescription, inflight>>

handleNewAnalysis ==
    /\ ResultsRendered
    /\ file' = None
    /\ jobDescription' = EmptyStr
    /\ analysis' = [analyzing |-> FALSE, results |-> None,
                    extractedUrls |-> None, analysisDetails |-> None]
    /\ event' = Event("handleNewAnalysis", None)
    /\ toasts' = <<>>
    /\ UNCHANGED inflight

\* ----------------------------------------------------------- ResumeUpload
\* useDropzone({accept, maxFiles: 1, maxSize}): the files of a drop that the
\* dropzone hands to onDrop as acceptedFiles. The files of a listed type and
\* of at most maxSize bytes pass; when more than maxFiles pass, all are
\* rejected.
maxFiles == 1
acceptedFiles(dropped) ==
    LET passed == SelectSeq(dropped, LAMBDA f : f.type \in {PDF, DOCX, TXT}
                                               /\ f.size <= MaxFileSize)
    IN  IF Len(passed) > maxFiles THEN <<>> ELSE passed

UploadResponse(n, s, m, id) ==
    [net |-> n, success |-> s, message |-> m, file_id |-> id]

\* What a fetch of /api/upload-resume can settle with: the fetch rejects, the
\* body is not JSON, {success, message, file_id, resume_data} or
\* {success: false, message}.
UploadResponses ==
    {UploadResponse("rejected", FALSE, None, None),
     UploadResponse("unparsable", FALSE, None, None),
     UploadResponse("json", TRUE, Some("message"), Some("file_id")),
     UploadResponse("json", FALSE, Some("message"), None),
     UploadResponse("json", FALSE, None, None)}

\* onDrop with the busy state set before the file is looked at
onDropSetsBusyFirst(accepted) ==
    /\ isUploading' = TRUE
    /\ IF accepted = <<>>
       THEN UNCHANGED <<uploadedFile, uploads>>
       ELSE /\ uploadedFile' = Some(accepted[1])
            /\ uploads' = uploads (+) SetToBag({accepted[1]})
    /\ calls' = <<>>
    /\ toasts' = <<>>

\* onDrop up to its first await
onDrop(accepted) ==
    IF accepted = <<>>
    THEN /\ UNCHANGED uploadVars
         /\ calls' = <<>>
         /\ toasts' = <<>>
    ELSE /\ isUploading' = TRUE
         /\ uploadedFile' = Some(accepted[1])
         /\ uploads' = uploads (+) SetToBag({accepted[1]})
         /\ calls' = <<>>
         /\ toasts' = <<>>

\* onDropSettled with onUploadSuccess called before result.success is read
onDropSettledCallsBeforeTest(resp) ==
    /\ IF resp.net = "json" /\ resp.success
       THEN /\ toasts' = <<Toast("success", "Resume uploaded successfully!")>>
            /\ calls' = <<[callback |-> "onUploadSuccess", arg |-> resp.file_id]>>
            /\ UNCHANGED uploadedFile
       ELSE /\ toasts' = <<Toast("error",
                   IF resp.net = "rejected" THEN "Failed to fetch"
                   ELSE IF resp.net = "unparsable" THEN "Unexpected token in JSON"
                   ELSE OrElse(resp.message, "Upload failed"))>>
            /\ calls' = IF resp.net = "json"
                        THEN <<[callback |-> "onUploadSuccess", arg |-> resp.file_id]>>
                        ELSE <<>>
            /\ uploadedFile' = None
    /\ isUploading' = FALSE

\* onDropSettled without the finally block: the busy state is cleared on
\* the success path only
onDropSettledWithoutFinally(resp) ==
    IF resp.net = "json" /\ resp.success
    THEN /\ toasts' = <<Toast("success", "Resume uploaded successfully!")>>
         /\ calls' = <<[callback |-> "onUploadSuccess", arg |-> resp.file_id]>>
         /\ isUploading' = FALSE
         /\ UNCHANGED uploadedFile
    ELSE /\ toasts' = <<Toast("error",
                IF resp.net = "rejected" THEN "Failed to fetch"
                ELSE IF resp.net = "unparsable" THEN "Unexpected token in JSON"
                ELSE OrElse(resp.message, "Upload failed"))>>
         /\ calls' = <<>>
         /\ uploadedFile' = None
         /\ UNCHANGED isUploading

\* onDrop after its awaits: try, catch and finally
onDropSettled(resp) ==
    /\ IF resp.net = "json" /\ resp.success
       THEN /\ toasts' = <<Toast("success", "Resume uploaded successfully!")>>
            /\ calls' = <<[callback |-> "onUploadSuccess", arg |-> resp.file_id]>>
            /\ UNCHANGED uploadedFile
       ELSE /\ toasts' = <<Toast("error",
                   IF resp.net = "rejected" THEN "Failed to fetch"
                   ELSE IF resp.net = "unparsable" THEN "Unexpected token in JSON"
                   ELSE OrElse(resp.message, "Upload failed"))>>
            /\ calls' = <<>>
            /\ uploadedFile' = None
    /\ isUploading' = FALSE

\* Pending uploads the model follows at once.
MaxPending == 2

\* Files are dropped on the dropzone root, which takes no pointer events
\* while isUploading (className pointer-events-none).
DropOnZone(dropped) ==
    /\ ~isUploading
    /\ BagCardinality(uploads) < MaxPending
    /\ event' = Event("onDrop",
           <<[dropped |-> dropped, accepted |-> acceptedFiles(dropped)]>>)
    /\ onDrop(acceptedFiles(dropped))

\* The focused dropzone root opens the file dialog on Enter or Space; the
\* files chosen there reach onDrop as well.
PickWithKeyboard(dropped) ==
    /\ BagCardinality(uploads) < MaxPending
    /\ event' = Event("onDrop",
           <<[dropped |-> dropped, accepted |-> acceptedFiles(dropped)]>>)
    /\ onDrop(acceptedFiles(dropped))

\* The fetch of a pending upload of file f settles with resp.
UploadSettles(f, resp) ==
    /\ event' = Event("uploadSettled", <<resp, f>>)
    /\ uploads' = uploads (-) SetToBag({f})
    /\ onDropSettled(resp)

\* ------------------------------------------------------ ProfileUrlsForm
\* A URL field's text by what the form asks of it: whether it is empty,
\* whether new URL(value) accepts it, whether it contains 'linkedin.com',
\* whether it contains 'github.com'.
Url(e, p, l, g) == [empty |-> e, parses |-> p, linkedin |-> l, github |-> g]
EmptyUrl == Url(TRUE, FALSE, FALSE, FALSE)
UrlValues == {EmptyUrl} \cup {Url(FALSE, p, l, g) : p, l, g \in BOOLEAN}
urlFields == {"linkedin_url", "github_url", "portfolio_url"}
NoUrlErrors == [f \in urlFields |-> None]
InitialUrlForm ==
    [values |-> [f \in urlFields |-> EmptyUrl],
     errors |-> NoUrlErrors,
     isSubmitted |-> FALSE]

\* hasAnyUrl with the portfolio field left out
hasAnyUrlWithoutPortfolio(values) ==
    ~values["linkedin_url"].empty \/ ~values["github_url"].empty

hasAnyUrl(values) ==
    \/ ~values["linkedin_url"].empty
    \/ ~values["github_url"].empty
    \/ ~values["portfolio_url"].empty

\* The validators answer None for true, Some(message) otherwise.
validateUrl(value) ==
    IF value.empty THEN None
    ELSE IF value.parses THEN None
    ELSE Some("Please enter a valid URL")

\* validateLinkedInUrl with the platform looked for before the URL is parsed
validateLinkedInUrlPlatformFirst(value) ==
    IF value.empty THEN None
    ELSE IF ~value.linkedin THEN Some("Please enter a valid LinkedIn URL")
    ELSE IF validateUrl(value) # None THEN validateUrl(value)
    ELSE None

validateLinkedInUrl(value) ==
    IF value.empty THEN None
    ELSE IF validateUrl(value) # None THEN validateUrl(value)
    ELSE IF ~value.linkedin THEN Some("Please enter a valid LinkedIn URL")
    ELSE None

validateGitHubUrl(value) ==
    IF value.empty THEN None
    ELSE IF validateUrl(value) # None THEN validateUrl(value)
    ELSE IF ~value.github THEN Some("Please enter a valid GitHub URL")
    ELSE None

validateField(f, value) ==
    IF f = "linkedin_url" THEN validateLinkedInUrl(value)
    ELSE IF f = "github_url" THEN validateGitHubUrl(value)
    ELSE validateUrl(value)

\* The inputs are of type="url": the browser lets a submit event through
\* only if every non-empty field holds an absolute URL.
NativeUrlsValid(values) ==
    \A f \in urlFields : values[f].empty \/ values[f].parses

\* The user edits a field; once the form was submitted, the field is
\* validated again on every change.
setUrlField(f, value) ==
    /\ urlForm' = [urlForm EXCEPT
                     !.values[f] = value,
                     !.errors[f] = IF urlForm.isSubmitted
                                   THEN validateField(f, value) ELSE @]
    /\ calls' = <<>>
    /\ event' = Event("setUrlField", <<f, value>>)

\* handleSubmit(onFormSubmit): validate every field, then onSubmit(data).
handleSubmitUrls ==
    LET errs == [f \in urlFields |-> validateField(f, urlForm.values[f])]
    IN /\ urlForm' = [urlForm EXCEPT !.errors = errs, !.isSubmitted = TRUE]
       /\ calls' = IF errs = NoUrlErrors
                   THEN <<[callback |-> "onSubmit", arg |-> urlForm.values]>>
                   ELSE <<>>

ContinueDisabled == ~hasAnyUrl(urlForm.values)

\* A click on Continue, or Enter in a field: with the submit button
\* disabled neither submits the form.
SubmitUrls(how) ==
    /\ IF ContinueDisabled \/ ~NativeUrlsValid(urlForm.values)
       THEN UNCHANGED urlForm /\ calls' = <<>>
       ELSE handleSubmitUrls
    /\ event' = Event(how, None)

ClickSkip ==
    /\ calls' = <<[callback |-> "onSkip", arg |-> None]>>
    /\ event' = Event("clickSkip", None)
    /\ UNCHANGED urlForm

ClickBackFromUrls ==
    /\ calls' = <<[callback |-> "onBack", arg |-> None]>>
    /\ event' = Event("clickBack", None)
    /\ UNCHANGED urlForm

\* --------------------------------------------------- JobDescriptionForm
\* Of the form's eight fields the three with rules and the two skill lists
\* are kept; experience_level, education_requirements and location pass
\* through to the payload unexamined.
\* A comma-separated text is the sequence of its pieces between the commas.
TextValues == {EmptyStr, Str(1, 0, 0), Str(0, 1, 0)}
JdDescriptions ==
    {EmptyStr, Str(0, MinJobDescriptionLength - 1, 0),
     Str(1, MinJobDescriptionLength - 1, 0), Str(0, MinJobDescriptionLength, 0)}
SkillTexts ==
    {<<EmptyStr>>, <<Str(0, 1, 0)>>, <<Str(0, 1, 0), Str(1, 1, 0)>>,
     <<Str(0, 1, 0), Str(1, 0, 0)>>}
jdRuleFields == {"title", "company", "description"}
NoJdErrors == [f \in jdRuleFields |-> None]
InitialJdForm ==
    [values |-> [title |-> EmptyStr, company |-> EmptyStr,
                 description |-> EmptyStr,
                 required_skills |-> <<EmptyStr>>,
                 preferred_skills |-> <<EmptyStr>>],
     errors |-> NoJdErrors,
     isSubmitted |-> FALSE,
     isValidating |-> FALSE]
JdFieldValues(f) ==
    IF f = "title" THEN TextValues
    ELSE IF f = "company" THEN {EmptyStr, Str(0, 1, 0)}
    ELSE IF f = "description" THEN JdDescriptions
    ELSE IF f = "required_skills" THEN SkillTexts
    ELSE {<<EmptyStr>>, <<Str(0, 1, 0)>>}

\* The register rules with the length rule of the description left out
jdRuleWithoutMinLength(f, value) ==
    IF value = EmptyStr
    THEN Some(IF f = "title" THEN "Job title is required"
              ELSE IF f = "company" THEN "Company name is required"
              ELSE "Job description is required")
    ELSE None

\* The register rules: required fails on the empty string only; minLength
\* counts every character of the value.
jdRule(f, value) ==
    IF value = EmptyStr
    THEN Some(IF f = "title" THEN "Job title is required"
              ELSE IF f = "company" THEN "Company name is required"
              ELSE "Job description is required")
    ELSE IF f = "description" /\ StrLen(value) < MinJobDescriptionLength
    THEN Some("Description must be at least 50 characters")
    ELSE None

\* data.x ? data.x.split(',').map(s => s.trim()) : []
SplitSkills(text) ==
    IF text = <<EmptyStr>> THEN <<>>
    ELSE [i \in 1..Len(text) |-> Trim(text[i])]

JdPayload(values) ==
    [title |-> values.title,
     company |-> values.company,
     description |-> values.description,
     required_skills |-> SplitSkills(values.required_skills),
     preferred_skills |-> SplitSkills(values.preferred_skills)]

\* POST /api/validate-job-description in the backend: the answer to a
\* payload.
JdResponse(n, s, m, d) == [network |-> n, success |-> s, message |-> m, details |-> d]
validateJobDescription(payload) ==
    IF /\ payload.title # EmptyStr
       /\ payload.company # EmptyStr
       /\ StrLen(payload.description) >= MinJobDescriptionLength
    THEN JdResponse("json", TRUE, Some("Job description is valid"),
            Some([title |-> payload.title,
                  company |-> payload.company,
                  description_length |-> StrLen(payload.description),
                  required_skills_count |-> Len(payload.required_skills),
                  preferred_skills_count |-> Len(payload.preferred_skills)]))
    ELSE JdResponse("json", FALSE, Some("Invalid job description"), None)

\* The answers with a description_length that depends on the moment
JdResponsesUnstable(payload) ==
    {validateJobDescription(payload),
     [validateJobDescription(payload) EXCEPT
        !.details = IF @ = None THEN @
                    ELSE Some([@[1] EXCEPT !.description_length = @ + 1])],
     JdResponse("json", FALSE, None, None),
     JdResponse("unparsable", FALSE, None, None),
     JdResponse("rejected", FALSE, None, None)}

\* What the form can receive: the backend's answer, an error body without
\* a message, a body that is not JSON, no response at all.
JdResponses(payload) ==
    {validateJobDescription(payload),
     JdResponse("json", FALSE, None, None),
     JdResponse("unparsable", FALSE, None, None),
     JdResponse("rejected", FALSE, None, None)}

setJdField(f, value) ==
    /\ jdForm' = [jdForm EXCEPT
                    !.values[f] = value,
                    !.errors = IF jdForm.isSubmitted /\ f \in jdRuleFields
                               THEN [@ EXCEPT ![f] = jdRule(f, value)] ELSE @]
    /\ calls' = <<>>
    /\ toasts' = <<>>
    /\ event' = Event("setJdField", <<f>>)
    /\ lastValidation' = None
    /\ UNCHANGED jdPending

\* onFormSubmit up to the fetch.
onFormSubmit(data) ==
    /\ jdPending' = Append(jdPending, JdPayload(data))
    /\ calls' = <<>>
    /\ toasts' = <<>>

\* handleSubmit(onFormSubmit): the rules first, onFormSubmit if all hold.
handleSubmitJd ==
    LET errs == [f \in jdRuleFields |-> jdRule(f, jdForm.values[f])]
    IN IF errs = NoJdErrors
       THEN /\ jdForm' = [jdForm EXCEPT !.errors = errs, !.isSubmitted = TRUE,
                                        !.isValidating = TRUE]
            /\ onFormSubmit(jdForm.values)
       ELSE /\ jdForm' = [jdForm EXCEPT !.errors = errs, !.isSubmitted = TRUE]
            /\ UNCHANGED jdPending
            /\ calls' = <<>>
            /\ toasts' = <<>>

\* A click on the submit button, or Enter in a field; the button is
\* disabled while a validation is pending.
SubmitJd(how) ==
    /\ IF jdForm.isValidating
       THEN UNCHANGED <<jdForm, jdPending>> /\ calls' = <<>> /\ toasts' = <<>>
       ELSE handleSubmitJd
    /\ event' = Event(how, None)
    /\ UNCHANGED lastValidation

\* onFormSubmitSettled handing on the values the form holds when the answer
\* arrives instead of the object that was sent
onFormSubmitSettledCurrentValues(payload, resp) ==
    /\ jdForm' = [jdForm EXCEPT !.isValidating = FALSE]
    /\ IF resp.network = "json" /\ resp.success
       THEN /\ toasts' = <<Toast("success", "Job description validated successfully!")>>
            /\ calls' = <<[callback |-> "onSubmit", arg |-> JdPayload(jdForm.values)]>>
       ELSE /\ toasts' = <<Toast("error",
                             IF resp.network = "json"
                             THEN OrElse(resp.message, "Validation failed")
                             ELSE resp.network)>>
            /\ calls' = <<>>

\* onFormSubmit after the awaits.
onFormSubmitSettled(payload, resp) ==
    /\ jdForm' = [jdForm EXCEPT !.isValidating = FALSE]
    /\ IF resp.network = "json" /\ resp.success
       THEN /\ toasts' = <<Toast("success", "Job description validated successfully!")>>
            /\ calls' = <<[callback |-> "onSubmit", arg |-> payload]>>
       ELSE /\ toasts' = <<Toast("error",
                             IF resp.network = "json"
                             THEN OrElse(resp.message, "Validation failed")
                             ELSE resp.network)>>
            /\ calls' = <<>>

\* The pending validation is answered.
ValidationSettles(resp) ==
    /\ jdPending # <<>>
    /\ resp \in JdResponses(Head(jdPending))
    /\ onFormSubmitSettled(Head(jdPending), resp)
    /\ jdPending' = Tail(jdPending)
    /\ lastValidation' =
         IF resp.details # None
         THEN Some([payload |-> Head(jdPending),
                    details |-> resp.details[1],
                    repeated |-> /\ lastValidation # None
                                 /\ lastValidation[1].payload = Head(jdPending)])
         ELSE lastValidation
    /\ event' = Event("validationSettled", <<resp>>)

ClickBackFromJd ==
    /\ calls' = <<[callback |-> "onBack", arg |-> None]>>
    /\ toasts' = <<>>
    /\ event' = Event("clickBack", None)
    /\ UNCHANGED <<jdForm, jdPending, lastValidation>>

\* ------------------------------------------------- the backend pipeline
\* One analysis request in the backend: intake, then resume parsing and job
\* resolution, the three profile fetches once the resume's URLs are known,
\* scoring, aggregation. A failure of a required stage aborts the analysis;
\* a failed fetch leaves its sub-record out.
Platforms == {"linkedin", "github", "portfolio"}
IdleStages == [parse |-> "idle", resolve |-> "idle", score |-> "idle"]
Settled(p) == fetches[p] \in {"ok", "failed", "omitted"}

\* A request arrives; File Intake validates the upload.
Receive(valid) ==
    /\ outcome # "running"
    /\ stage' = IF valid THEN [IdleStages EXCEPT !.parse = "running"]
                ELSE [IdleStages EXCEPT !.parse = "rejected"]
    /\ fetches' = [p \in Platforms |-> "idle"]
    /\ settleOrder' = <<>>
    /\ outcome' = IF valid THEN "running" ELSE "failed"
    /\ enrichment' = None
    /\ event' = Event("receive", <<valid>>)

\* Resume Parser: the parsed resume names the profile URLs (urls); their
\* fetches are issued together, the other sub-records are omitted.
ParseDone(urls) ==
    /\ outcome = "running"
    /\ stage.parse = "running"
    /\ stage' = [stage EXCEPT !.parse = "done"]
    /\ fetches' = [p \in Platforms |-> IF p \in urls THEN "running" ELSE "omitted"]
    /\ event' = Event("parseDone", <<urls>>)
    /\ UNCHANGED <<settleOrder, outcome, enrichment>>

ParseFail ==
    /\ outcome = "running"
    /\ stage.parse = "running"
    /\ stage' = [stage EXCEPT !.parse = "failed"]
    /\ outcome' = "failed"
    /\ event' = Event("parseFail", None)
    /\ UNCHANGED <<fetches, settleOrder, enrichment>>

\* Job Description Resolver: no dependency on the parser.
ResolveStart ==
    /\ outcome = "running"
    /\ stage.resolve = "idle"
    /\ stage' = [stage EXCEPT !.resolve = "running"]
    /\ event' = Event("resolveStart", None)
    /\ UNCHANGED <<fetches, settleOrder, outcome, enrichment>>

ResolveDone ==
    /\ outcome = "running"
    /\ stage.resolve = "running"
    /\ stage' = [stage EXCEPT !.resolve = "done"]
    /\ event' = Event("resolveDone", None)
    /\ UNCHANGED <<fetches, settleOrder, outcome, enrichment>>

ResolveFail ==
    /\ outcome = "running"
    /\ stage.resolve = "running"
    /\ stage' = [stage EXCEPT !.resolve = "failed"]
    /\ outcome' = "failed"
    /\ event' = Event("resolveFail", None)
    /\ UNCHANGED <<fetches, settleOrder, enrichment>>

\* FetchSettles with a failed fetch propagated as an analysis failure
FetchSettlesPropagates(p, ok) ==
    /\ outcome = "running"
    /\ fetches[p] = "running"
    /\ fetches' = [fetches EXCEPT ![p] = IF ok THEN "ok" ELSE "failed"]
    /\ settleOrder' = Append(settleOrder, p)
    /\ outcome' = IF ok THEN outcome ELSE "failed"
    /\ event' = Event("fetchSettled", <<p, ok>>)
    /\ UNCHANGED <<stage, enrichment>>

\* Profile Enricher: one fetch settles, with a record or with a failure that
\* is caught locally (a timeout included).
FetchSettles(p, ok) ==
    /\ outcome = "running"
    /\ fetches[p] = "running"
    /\ fetches' = [fetches EXCEPT ![p] = IF ok THEN "ok" ELSE "failed"]
    /\ settleOrder' = Append(settleOrder, p)
    /\ event' = Event("fetchSettled", <<p, ok>>)
    /\ UNCHANGED <<stage, outcome, enrichment>>

\* ScoreStart without the join over the three fetches
ScoreStartWithoutJoin ==
    /\ outcome = "running"
    /\ stage.parse = "done"
    /\ stage.resolve = "done"
    /\ stage.score = "idle"
    /\ stage' = [stage EXCEPT !.score = "running"]
    /\ event' = Event("scoreStart", None)
    /\ UNCHANGED <<fetches, settleOrder, outcome, enrichment>>

\* Suitability Scorer: starts on the parsed resume, the resolved job and the
\* joined enrichment.
ScoreStart ==
    /\ outcome = "running"
    /\ stage.parse = "done"
    /\ stage.resolve = "done"
    /\ \A p \in Platforms : Settled(p)
    /\ stage.score = "idle"
    /\ stage' = [stage EXCEPT !.score = "running"]
    /\ event' = Event("scoreStart", None)
    /\ UNCHANGED <<fetches, settleOrder, outcome, enrichment>>

\* The scorer returns; the Analysis Aggregator assembles the analysis.
\* profile_enrichment is absent when no URL was supplied, else it holds the
\* sub-records whose fetch succeeded.
ScoreDone ==
    /\ outcome = "running"
    /\ stage.score = "running"
    /\ stage' = [stage EXCEPT !.score = "done"]
    /\ outcome' = "success"
    /\ enrichment' = IF \A p \in Platforms : fetches[p] = "omitted" THEN None
                     ELSE Some({p \in Platforms : fetches[p] = "ok"})
    /\ event' = Event("scoreDone", None)
    /\ UNCHANGED <<fetches, settleOrder>>

ScoreFail ==
    /\ outcome = "running"
    /\ stage.score = "running"
    /\ stage' = [stage EXCEPT !.score = "failed"]
    /\ outcome' = "failed"
    /\ event' = Event("scoreFail", None)
    /\ UNCHANGED <<fetches, settleOrder, enrichment>>

\* ------------------------------------------------------ the result views
\* Scores are counted in hundredths of a point, so that a score with two
\* decimals is an integer here.
MaxHundredths == 5
ScoreValues == 0 .. MaxHundredths

\* The ScoreBreakdown the scorer returns: the total is the sum of the four
\* sub-scores.
ScoreBreakdown(r, l, g, p) ==
    [resume_match |-> r, linkedin_score |-> l, github_score |-> g,
     portfolio_score |-> p, total_score |-> r + l + g + p]

\* formatScore with the score cut to one decimal instead of rounded
formatScoreTruncates(score) == (score \div 10) * 10

\* Math.round(score * 10) / 10: to the nearest tenth, a half upwards.
formatScore(score) == ((score + 5) \div 10) * 10

\* The two AnalysisResults components of the repository: the one with the
\* four-part breakdown and the job-specific one.
Variants == {"breakdown", "jobSpecific"}
Tabs(variant) ==
    IF variant = "breakdown"
    THEN {"overview", "details", "enrichment", "interview"}
    ELSE {"overview", "skills", "experience", "interview", "recommendation"}

\* The maximum each component states for score_breakdown.total_score, in
\* whole points.
TotalOutOf(variant) == IF variant = "breakdown" THEN 145 ELSE 100

Shown(name, value, outOf) == [name |-> name, shown |-> value, outOf |-> outOf]

\* The score card above the tabs. The breakdown component shows the four
\* sub-scores with their bounds; the job-specific one shows only the total
\* of score_breakdown (its other figures come from analysisDetails).
ScoreCard(variant, sb) ==
    IF variant = "breakdown"
    THEN << Shown("resume_match", formatScore(sb.resume_match), 100),
            Shown("linkedin_score", formatScore(sb.linkedin_score), 20),
            Shown("github_score", formatScore(sb.github_score), 15),
            Shown("portfolio_score", formatScore(sb.portfolio_score), 10) >>
    ELSE << >>

\* The summary of the interview tab: "Total Score: x / max".
Summary(variant, tab, sb) ==
    IF tab = "interview"
    THEN Some([total |-> formatScore(sb.total_score),
               outOf |-> TotalOutOf(variant),
               resume_match |-> formatScore(sb.resume_match)])
    ELSE None

Render(variant, tab, sb) ==
    [variant |-> variant,
     activeTab |-> tab,
     total |-> formatScore(sb.total_score),
     outOf |-> TotalOutOf(variant),
     subs |-> ScoreCard(variant, sb),
     summary |-> Summary(variant, tab, sb)]

\* Home renders the results view for a returned analysis; the component
\* mounts on its overview tab.
ShowResults(variant, sb) ==
    /\ view = None
    /\ score_breakdown' = Some(sb)
    /\ view' = Some(Render(variant, "overview", sb))
    /\ event' = Event("showResults", <<variant>>)

setActiveTab(tab) ==
    /\ view # None
    /\ tab \in Tabs(view[1].variant)
    /\ view' = Some(Render(view[1].variant, tab, score_breakdown[1]))
    /\ event' = Event("setActiveTab", <<tab>>)
    /\ UNCHANGED score_breakdown

\* "New Analysis": the analysis is discarded and the view unmounts.
onNewAnalysis ==
    /\ view # None
    /\ score_breakdown' = None
    /\ view' = None
    /\ event' = Event("onNewAnalysis", None)

\* ------------------------------- AnalysisResults: the Profile Enrichment tab
\* ProfileEnrichment has three optional sub-records. Of a GitHub profile the
\* tab reads bio, which may be missing; of a portfolio it reads title,
\* description and technologies, each of which may be missing.
Opt(S) == {None} \cup {Some(x) : x \in S}
GitHubProfiles == {[bio |-> b] : b \in BOOLEAN}
Portfolios ==
    {[title |-> t, description |-> d, technologies |-> k] : t, d, k \in BOOLEAN}
ProfileEnrichments ==
    {[linkedin |-> l, github |-> g, portfolio |-> p] :
        l \in Opt({"LinkedInProfile"}), g \in Opt(GitHubProfiles),
        p \in Opt(Portfolios)}

\* {activeTab === 'enrichment' && ...}: the children of the tab, in order.
EnrichmentTab(pe) ==
    (IF pe # None /\ pe[1].github # None
     THEN <<[section |-> "GitHub Profile", bio |-> pe[1].github[1].bio]>>
     ELSE <<>>)
    \o (IF pe # None /\ pe[1].portfolio # None
        THEN <<[section |-> "Portfolio Analysis",
                title |-> IF pe[1].portfolio[1].title THEN "title" ELSE "Not available",
                description |-> IF pe[1].portfolio[1].description
                                THEN "description" ELSE "Not available",
                technologies |-> pe[1].portfolio[1].technologies]>>
        ELSE <<>>)
    \o (IF pe = None
        THEN <<[section |-> "No profile enrichment data available"]>>
        ELSE <<>>)

\* The panel under the tab bar: the enrichment tab's children when that tab
\* is the active one.
TabPanel(tab, pe) ==
    [activeTab |-> tab,
     sections |-> IF tab = "enrichment" THEN EnrichmentTab(pe) ELSE <<>>]

\* AnalysisResults mounts with the results of an analysis, on its overview
\* tab.
MountResults(pe) ==
    /\ enrichmentTab = None
    /\ profile_enrichment' = pe
    /\ enrichmentTab' = Some(TabPanel("overview", pe))
    /\ event' = Event("mountResults", None)

\* onClick={() => setActiveTab(tab.id)} of the tab bar
SelectTab(tab) ==
    /\ enrichmentTab # None
    /\ enrichmentTab' = Some(TabPanel(tab, profile_enrichment))
    /\ event' = Event("selectTab", <<tab>>)
    /\ UNCHANGED profile_enrichment

\* "New Analysis": the component unmounts.
UnmountResults ==
    /\ enrichmentTab # None
    /\ profile_enrichment' = None
    /\ enrichmentTab' = None
    /\ event' = Event("unmountResults", None)

\* ---------------------------------------------------------- ProgressSteps
steps ==
    << [id |-> 1, name |-> "Upload Resume"],
       [id |-> 2, name |-> "Job Description"],
       [id |-> 3, name |-> "Profile URLs"],
       [id |-> 4, name |-> "Analysis Results"] >>

\* Largest currentStep a parent passes.
MaxStep == 5
StepProps == 0 .. MaxStep

\* ProgressSteps with the connector coloured by the step's position
ProgressStepsConnectorByIndex(step) ==
    [i \in 1..Len(steps) |->
        LET isCompleted == steps[i].id < step
            isCurrent == steps[i].id = step
            stepIdx == i - 1
        IN [isCompleted |-> isCompleted,
            isCurrent |-> isCurrent,
            circle |-> IF isCompleted THEN "bg-primary-600 text-white"
                       ELSE IF isCurrent THEN "bg-white text-primary-600"
                       ELSE "bg-white text-gray-400",
            icon |-> IF isCompleted THEN "CheckCircle" ELSE steps[i].name,
            label |-> IF isCompleted \/ isCurrent THEN "text-primary-600"
                      ELSE "text-gray-500",
            connector |-> IF stepIdx < Len(steps) - 1
                          THEN Some(IF stepIdx < step THEN "bg-primary-600"
                                    ELSE "bg-gray-300")
                          ELSE None]]

\* steps.map(...): what is rendered for each step.
ProgressSteps(step) ==
    [i \in 1..Len(steps) |->
        LET isCompleted == steps[i].id < step
            isCurrent == steps[i].id = step
            stepIdx == i - 1
        IN [isCompleted |-> isCompleted,
            isCurrent |-> isCurrent,
            circle |-> IF isCompleted THEN "bg-primary-600 text-white"
                       ELSE IF isCurrent THEN "bg-white text-primary-600"
                       ELSE "bg-white text-gray-400",
            icon |-> IF isCompleted THEN "CheckCircle" ELSE steps[i].name,
            label |-> IF isCompleted \/ isCurrent THEN "text-primary-600"
                      ELSE "text-gray-500",
            connector |-> IF stepIdx < Len(steps) - 1
                          THEN Some(IF isCompleted THEN "bg-primary-600"
                                    ELSE "bg-gray-300")
                          ELSE None]]

\* The parent renders <ProgressSteps currentStep={step} />.
RenderProgressSteps(step) ==
    /\ currentStep' = step
    /\ progress' = ProgressSteps(step)
    /\ event' = Event("renderProgressSteps", <<step>>)

\* --------------------------------------------------------- specifications
Init ==
    /\ file = None
    /\ jobDescription = EmptyStr
    /\ analysis = InitialAnalysis
    /\ inflight = <<>>
    /\ isUploading = FALSE
    /\ uploadedFile = None
    /\ uploads = EmptyBag
    /\ calls = <<>>
    /\ stage = IdleStages
    /\ fetches = [p \in Platforms |-> "idle"]
    /\ settleOrder = <<>>
    /\ outcome = "none"
    /\ enrichment = None
    /\ score_breakdown = None
    /\ view = None
    /\ urlForm = InitialUrlForm
    /\ jdForm = InitialJdForm
    /\ jdPending = <<>>
    /\ lastValidation = None
    /\ profile_enrichment = None
    /\ enrichmentTab = None
    /\ currentStep = 1
    /\ progress = ProgressSteps(1)
    /\ event = Event("mount", None)
    /\ toasts = <<>>

notHome == <<uploadVars, calls, pipeVars, scoreVars, formVars, tabVars, stepVars>>
notUpload == <<homeVars, pipeVars, scoreVars, formVars, tabVars, stepVars>>
notPipeline == <<homeVars, uploadVars, calls, scoreVars, formVars, tabVars, stepVars, toasts>>
notScores == <<homeVars, uploadVars, calls, pipeVars, formVars, tabVars, stepVars, toasts>>
notUrlForm == <<homeVars, uploadVars, pipeVars, scoreVars,
                jdForm, jdPending, lastValidation, tabVars, stepVars, toasts>>
notJdForm == <<homeVars, uploadVars, pipeVars, scoreVars, urlForm, tabVars, stepVars>>
notEnrichmentTab == <<homeVars, uploadVars, calls, pipeVars, scoreVars, formVars,
                      stepVars, toasts>>
notProgress == <<homeVars, uploadVars, calls, pipeVars, scoreVars, formVars,
                 tabVars, toasts>>

\* What one drop or one file dialog delivers: no file, one file, or two
\* files, the second a text file of the largest size allowed.
Drops ==
    {<<>>} \cup {<<f>> : f \in Files}
           \cup {<<f, [type |-> TXT, size |-> MaxFileSize]>> : f \in Files}

HomeFileNext ==
    \/ \E f \in Files : handleFileSelect(Some(f)) /\ UNCHANGED notHome
    \/ handleFileSelect(None) /\ UNCHANGED notHome
    \/ \E f \in Files : handleDrop(Some(f)) /\ UNCHANGED notHome
    \/ handleDrop(None) /\ UNCHANGED notHome

HomeNext ==
    \/ HomeFileNext
    \/ \E v \in JobDescriptions : setJobDescription(v) /\ UNCHANGED notHome
    \/ ClickAnalyze /\ UNCHANGED notHome
    \/ \E i \in 1..Len(inflight) : \E r \in Responses(inflight[i]) :
          AnalysisSettles(i, r) /\ UNCHANGED notHome
    \/ handleNewAnalysis /\ UNCHANGED notHome

UploadNext ==
    \/ \E d \in Drops : DropOnZone(d) /\ UNCHANGED notUpload
    \/ \E d \in Drops : PickWithKeyboard(d) /\ UNCHANGED notUpload
    \/ \E f \in BagToSet(uploads) : \E r \in UploadResponses :
          UploadSettles(f, r) /\ UNCHANGED notUpload

PipelineNext ==
    \/ \E v \in BOOLEAN : Receive(v) /\ UNCHANGED notPipeline
    \/ \E u \in SUBSET Platforms : ParseDone(u) /\ UNCHANGED notPipeline
    \/ ParseFail /\ UNCHANGED notPipeline
    \/ ResolveStart /\ UNCHANGED notPipeline
    \/ ResolveDone /\ UNCHANGED notPipeline
    \/ ResolveFail /\ UNCHANGED notPipeline
    \/ \E p \in Platforms : \E ok \in BOOLEAN : FetchSettles(p, ok) /\ UNCHANGED notPipeline
    \/ ScoreStart /\ UNCHANGED notPipeline
    \/ ScoreDone /\ UNCHANGED notPipeline
    \/ ScoreFail /\ UNCHANGED notPipeline

ScoresNext ==
    \/ \E v \in Variants : \E r, l, g, p \in ScoreValues :
          ShowResults(v, ScoreBreakdown(r, l, g, p)) /\ UNCHANGED notScores
    \/ \E t \in Tabs("breakdown") \cup Tabs("jobSpecific") :
          setActiveTab(t) /\ UNCHANGED notScores
    \/ onNewAnalysis /\ UNCHANGED notScores

UrlFormNext ==
    \/ \E f \in urlFields : \E v \in UrlValues :
          setUrlField(f, v) /\ UNCHANGED notUrlForm
    \/ \E how \in {"clickContinue", "pressEnter"} :
          SubmitUrls(how) /\ UNCHANGED notUrlForm
    \/ ClickSkip /\ UNCHANGED notUrlForm
    \/ ClickBackFromUrls /\ UNCHANGED notUrlForm

JdFormNext ==
    \/ \E f \in DOMAIN InitialJdForm.values : \E v \in JdFieldValues(f) :
          setJdField(f, v) /\ UNCHANGED notJdForm
    \/ \E how \in {"clickSubmit", "pressEnter"} :
          SubmitJd(how) /\ UNCHANGED notJdForm
    \/ \E resp \in UNION {JdResponses(q) : q \in {jdPending[i] : i \in 1..Len(jdPending)}} :
          ValidationSettles(resp) /\ UNCHANGED notJdForm
    \/ ClickBackFromJd /\ UNCHANGED notJdForm

EnrichmentTabNext ==
    \/ \E pe \in Opt(ProfileEnrichments) :
          MountResults(pe) /\ UNCHANGED notEnrichmentTab
    \/ \E t \in Tabs("breakdown") : SelectTab(t) /\ UNCHANGED notEnrichmentTab
    \/ UnmountResults /\ UNCHANGED notEnrichmentTab

ProgressNext ==
    \E n \in StepProps : RenderProgressSteps(n) /\ UNCHANGED notProgress

\* The Home page.
SpecHome == Init /\ [][HomeNext]_vars

\* The two upload entry points: Home's file handlers and ResumeUpload.
SpecIntake == Init /\ [][HomeFileNext \/ UploadNext]_vars

\* ------------------------------------------------------------------ claims

\* C1: a click on Analyze while the job description has fewer than 50
\* characters after trimming (empty and whitespace-only texts included)
\* issues no request and leaves file, jobDescription and analysis as they
\* were; a request is only ever issued for a text of 50 or more trimmed
\* characters.
C1_ShortJobDescriptionRejected ==
    [][/\ (event'.op = "clickAnalyze" /\ jobDescription.core < 50)
            => UNCHANGED <<file, jobDescription, analysis, inflight>>
       /\ (inflight' # inflight /\ event'.op = "clickAnalyze")
            => jobDescription.core >= 50]_vars

C1_Witness ==
    /\ event.op = "clickAnalyze"
    /\ file # None
    /\ jobDescription.core = 49
    /\ StrLen(jobDescription) >= 50
    /\ inflight = <<>>
    /\ analysis = InitialAnalysis

\* C2: a file of a type other than pdf, docx, txt, or of more than 10485760
\* bytes, given to handleFileSelect or handleDrop leaves file as it was (a
\* file selected before stays selected) and shows an error; a drop on
\* ResumeUpload that has no accepted file leaves isUploading, uploadedFile
\* and the pending requests as they were and invokes no callback, and a drop
\* of one such file has no accepted file.
C2_InvalidFileNeverSelected ==
    [][/\ (/\ event'.op \in {"handleFileSelect", "handleDrop"}
           /\ event'.arg # None
           /\ (\/ event'.arg[1].type \notin {PDF, DOCX, TXT}
               \/ event'.arg[1].size > 10485760))
            => /\ file' = file
               /\ SuccessToasts(toasts') = {}
       /\ (event'.op = "onDrop" /\ event'.arg[1].accepted = <<>>)
            => /\ UNCHANGED <<isUploading, uploadedFile, uploads>>
               /\ calls' = <<>>
       /\ (/\ event'.op = "onDrop"
           /\ Len(event'.arg[1].dropped) = 1
           /\ (\/ event'.arg[1].dropped[1].type \notin {PDF, DOCX, TXT}
               \/ event'.arg[1].dropped[1].size > 10485760))
            => event'.arg[1].accepted = <<>>]_vars

C2_Witness ==
    /\ event.op = "handleDrop"
    /\ event.arg # None
    /\ event.arg[1].type = PDF
    /\ event.arg[1].size = 10485761
    /\ file = Some([type |-> TXT, size |-> 10485760])
    /\ ~isUploading
    /\ uploadedFile = Some([type |-> DOCX, size |-> 10485760])

\* C3: handleFileSelect and handleDrop store the file they are given exactly
\* when its type is one of pdf, docx, txt and its size is at most 10485760
\* bytes, and leave file unchanged otherwise; the two handlers decide alike.
C3_FileAcceptance ==
    [][(event'.op \in {"handleFileSelect", "handleDrop"} /\ event'.arg # None)
         => IF /\ event'.arg[1].type \in
                    {"application/pdf",
                     "application/vnd.openxmlformats-officedocument.wordprocessingml.document",
                     "text/plain"}
               /\ event'.arg[1].size <= 10485760
            THEN file' = event'.arg /\ ErrorToasts(toasts') = {}
            ELSE file' = file /\ SuccessToasts(toasts') = {}]_vars

C3_Witness ==
    /\ event.op = "handleDrop"
    /\ event.arg # None
    /\ event.arg[1].size = 10485760
    /\ file = event.arg

\* C4: when the fetch of a started analysis rejects, its body does not parse,
\* its status is not ok or its body has success false, the step that handles
\* it leaves analysis at {analyzing: false, results: null, extractedUrls:
\* null, analysisDetails: null}, shows exactly one toast, an error, and the
\* results view is not rendered.
C4_FailureAbortsAnalysis ==
    [][(/\ event'.op = "analysisSettled"
        /\ (\/ event'.arg[1].net # "json"
            \/ ~event'.arg[1].ok
            \/ ~event'.arg[1].success))
         => /\ analysis' = [analyzing |-> FALSE, results |-> None,
                            extractedUrls |-> None, analysisDetails |-> None]
            /\ Len(toasts') = 1
            /\ toasts'[1].kind = "error"
            /\ ~ResultsRendered']_vars

C4_Witness ==
    /\ event.op = "analysisSettled"
    /\ event.arg[1].net = "json"
    /\ ~event.arg[1].ok
    /\ event.arg[1].success
    /\ toasts = <<Toast("error", "detail")>>
    /\ analysis = InitialAnalysis
    /\ file # None

C6_NewAnalysisDiscards ==
    [][/\ event'.op = "handleNewAnalysis"
            => /\ file' = None
               /\ jobDescription' = Str(0, 0, 0)
               /\ analysis' = [analyzing |-> FALSE, results |-> None,
                               extractedUrls |-> None, analysisDetails |-> None]
               /\ inflight' = <<>>
               /\ ~ResultsRendered'
               /\ AnalyzeDisabled'
       /\ Len(inflight') > Len(inflight)
            => /\ file # None
               /\ jobDescription.core >= 50
               /\ inflight'[Len(inflight')].file = file[1]]_vars

C6_Witness ==
    /\ event.op = "handleNewAnalysis"
    /\ file = None
    /\ jobDescription = EmptyStr
    /\ analysis = InitialAnalysis

\* One analysis request in the backend.
SpecPipeline == Init /\ [][PipelineNext]_vars

\* C7: a failed profile fetch never fails the analysis. An analysis fails
\* only when intake, parsing, job resolution or scoring failed; once parsing,
\* resolution and scoring are done it has succeeded, whatever the three
\* fetches did; and the returned profile_enrichment holds exactly the
\* sub-records whose fetch succeeded.
C7_EnrichmentFailureIsLocal ==
    /\ outcome = "failed"
         => \/ stage.parse \in {"rejected", "failed"}
            \/ stage.resolve = "failed"
            \/ stage.score = "failed"
    /\ (stage.parse = "done" /\ stage.resolve = "done" /\ stage.score = "done")
         => outcome = "success"
    /\ outcome = "success"
         => /\ \A p \in Platforms : fetches[p] \in {"ok", "failed", "omitted"}
            /\ \A p \in Platforms :
                 fetches[p] # "ok" => (enrichment = None \/ p \notin enrichment[1])
            /\ \A p \in Platforms :
                 fetches[p] = "ok" => (enrichment # None /\ p \in enrichment[1])

C7_Witness ==
    /\ outcome = "success"
    /\ \A p \in Platforms : fetches[p] = "failed"
    /\ enrichment = Some({})

\* C8: scoring has started only if parsing is done, job resolution is done
\* and each of the three fetches has settled or was omitted; and a running
\* fetch can settle whatever the state of the other two and of the resolver.
C8_ScoringAfterJoin ==
    /\ stage.score # "idle"
         => /\ stage.parse = "done"
            /\ stage.resolve = "done"
            /\ \A p \in Platforms : fetches[p] \in {"ok", "failed", "omitted"}
    /\ \A p \in Platforms :
         (outcome = "running" /\ fetches[p] = "running")
            => /\ ENABLED FetchSettles(p, TRUE)
               /\ ENABLED FetchSettles(p, FALSE)

C8_Witness ==
    /\ stage.score = "running"
    /\ settleOrder = <<"portfolio", "linkedin", "github">>
    /\ fetches["linkedin"] = "failed"

\* The result views over the analyses the scorer can return.
SpecScores == Init /\ [][ScoresNext]_vars

ShownSum == view[1].subs[1].shown + view[1].subs[2].shown
              + view[1].subs[3].shown + view[1].subs[4].shown
NearestTenth(shown, score) ==
    shown % 10 = 0 /\ score - 5 < shown /\ shown <= score + 5

\* C9 as stated: for every displayed analysis total_score is the sum of the
\* four sub-scores, and the total a view shows equals the sum of the four
\* sub-scores it shows.
C9_ShownTotalIsShownSum ==
    (view # None /\ view[1].subs # <<>>)
        => /\ score_breakdown[1].total_score
                 = score_breakdown[1].resume_match + score_breakdown[1].linkedin_score
                   + score_breakdown[1].github_score + score_breakdown[1].portfolio_score
           /\ view[1].total = ShownSum

\* C9 amended: for every displayed analysis total_score is the sum of the
\* four sub-scores; the view shows the total and each sub-score rounded to
\* the nearest tenth, each on its own, so the total it shows differs from
\* the sum of the four sub-scores it shows by at most 0.2.
C9_ShownTotalNearShownSum ==
    (view # None /\ view[1].subs # <<>>)
        => /\ score_breakdown[1].total_score
                 = score_breakdown[1].resume_match + score_breakdown[1].linkedin_score
                   + score_breakdown[1].github_score + score_breakdown[1].portfolio_score
           /\ NearestTenth(view[1].total, score_breakdown[1].total_score)
           /\ NearestTenth(view[1].subs[1].shown, score_breakdown[1].resume_match)
           /\ NearestTenth(view[1].subs[2].shown, score_breakdown[1].linkedin_score)
           /\ NearestTenth(view[1].subs[3].shown, score_breakdown[1].github_score)
           /\ NearestTenth(view[1].subs[4].shown, score_breakdown[1].portfolio_score)
           /\ view[1].total - ShownSum \in -20 .. 20
           /\ view[1].summary # None => view[1].summary[1].total = view[1].total

C9_Witness ==
    /\ view # None
    /\ view[1].subs # <<>>
    /\ view[1].activeTab = "interview"
    /\ score_breakdown[1].total_score = 20
    /\ view[1].total = 20
    /\ ShownSum = 40

\* C10: every place that states the maximum of total_score states the same
\* maximum, 145, in either component, on the score card and in the summary
\* of the interview tab; and the bounds stated for the sub-scores add up
\* to it.
C10_OneScale ==
    view # None
        => /\ view[1].outOf = 145
           /\ view[1].summary # None => view[1].summary[1].outOf = 145
           /\ view[1].subs # <<>>
                => view[1].subs[1].outOf + view[1].subs[2].outOf
                     + view[1].subs[3].outOf + view[1].subs[4].outOf = view[1].outOf

\* The profile-URL step.
SpecUrlForm == Init /\ [][UrlFormNext]_vars

AllUrlsEmpty(values) ==
    values["linkedin_url"].empty /\ values["github_url"].empty
        /\ values["portfolio_url"].empty

\* C11: Skip is enabled in every state of the form and calls onSkip;
\* Continue is enabled exactly when one of the three URL fields is
\* non-empty; and onSubmit is never invoked with all three URLs empty.
C11_SkipAlwaysContinueWithUrl ==
    [][/\ ENABLED (ClickSkip /\ UNCHANGED notUrlForm)
       /\ event'.op = "clickSkip" => calls' = <<[callback |-> "onSkip", arg |-> None]>>
       /\ ContinueDisabled <=> AllUrlsEmpty(urlForm.values)
       /\ (event'.op \in {"clickContinue", "pressEnter"} /\ AllUrlsEmpty(urlForm.values))
            => (calls' = <<>> /\ urlForm' = urlForm)
       /\ \A i \in 1..Len(calls') :
            calls'[i].callback = "onSubmit"
               => /\ ~AllUrlsEmpty(calls'[i].arg)
                  /\ calls'[i].arg = urlForm.values]_vars

C11_Witness ==
    /\ event.op = "clickContinue"
    /\ Len(calls) = 1
    /\ calls[1].callback = "onSubmit"
    /\ calls[1].arg["linkedin_url"].empty
    /\ calls[1].arg["github_url"].empty
    /\ ~calls[1].arg["portfolio_url"].empty

\* The job-description step.
SpecJdForm == Init /\ [][JdFormNext]_vars

\* C12: a request to /api/validate-job-description is sent only with a
\* non-empty title, a non-empty company and a description of at least 50
\* characters; a submit with a shorter description sends nothing, calls no
\* onSubmit and shows the error on the field.
C12_NoRequestForShortDescription ==
    [][/\ jdPending' # jdPending /\ Len(jdPending') > Len(jdPending)
            => /\ event'.op \in {"clickSubmit", "pressEnter"}
               /\ jdForm.values.title.lead + jdForm.values.title.core > 0
               /\ jdForm.values.company.lead + jdForm.values.company.core > 0
               /\ jdForm.values.description.lead + jdForm.values.description.core
                     + jdForm.values.description.trail >= 50
               /\ jdPending'[Len(jdPending')].description = jdForm.values.description
       /\ (/\ event'.op \in {"clickSubmit", "pressEnter"}
           /\ jdForm.values.description.lead + jdForm.values.description.core
                 + jdForm.values.description.trail < 50)
            => /\ jdPending' = jdPending
               /\ calls' = <<>>
               /\ ~jdForm.isValidating => jdForm'.errors["description"] # None]_vars

C12_Witness ==
    /\ event.op = "clickSubmit"
    /\ jdForm.values.title # EmptyStr
    /\ jdForm.values.company # EmptyStr
    /\ jdForm.values.description = Str(0, 49, 0)
    /\ jdForm.errors["description"] = Some("Description must be at least 50 characters")
    /\ jdPending = <<>>

SpecHomeFair ==
    /\ Init
    /\ [][HomeNext]_vars
    /\ WF_vars(\E i \in 1..Len(inflight) : \E r \in Responses(inflight[i]) :
                  AnalysisSettles(i, r) /\ UNCHANGED notHome)

C15_OneRequestInFlight ==
    [][/\ Len(inflight) <= 1
       /\ Len(inflight') <= 1
       /\ analysis.analyzing => Len(inflight) = 1
       /\ Len(inflight') > Len(inflight)
            => /\ event'.op = "clickAnalyze"
               /\ ~analysis.analyzing
               /\ inflight = <<>>
       /\ (event'.op = "clickAnalyze" /\ analysis.analyzing)
            => inflight' = inflight]_vars

C15_Witness ==
    /\ event.op = "clickAnalyze"
    /\ analysis.analyzing
    /\ Len(inflight) = 1
    /\ file # None
    /\ inflight[1].file # file[1]
    /\ jobDescription.core >= 50

C17_StatusBeforeSuccessFlag ==
    [][(event'.op = "analysisSettled" /\ event'.arg[1].net = "json")
         => /\ ~event'.arg[1].ok
                 => toasts' = <<[kind |-> "error",
                                 msg |-> IF event'.arg[1].detail = <<>>
                                         THEN "Analysis failed"
                                         ELSE event'.arg[1].detail[1]]>>
            /\ (event'.arg[1].ok /\ ~event'.arg[1].success)
                 => toasts' = <<[kind |-> "error",
                                 msg |-> IF event'.arg[1].message = <<>>
                                         THEN "Analysis failed"
                                         ELSE event'.arg[1].message[1]]>>]_vars

C17_Witness ==
    /\ event.op = "analysisSettled"
    /\ event.arg[1].net = "json"
    /\ ~event.arg[1].ok
    /\ event.arg[1].success
    /\ event.arg[1].detail = None
    /\ toasts = <<Toast("error", "Analysis failed")>>
    /\ ~analysis.analyzing

\* C18: no step of handleAnalyze, neither the click nor the handling of the
\* response, changes file or jobDescription; so after a failed analysis
\* whose inputs the user has not touched, the page holds the file and the
\* text the request was sent with and the Analyze button is enabled again.
C18_AnalyzeKeepsInputs ==
    [][/\ event'.op \in {"clickAnalyze", "analysisSettled"}
            => (file' = file /\ jobDescription' = jobDescription)
       /\ (/\ event'.op = "analysisSettled"
           /\ analysis'.results = <<>>
           /\ file = <<inflight[1].file>>
           /\ jobDescription.core = inflight[1].job_description.core)
            => /\ file' = <<inflight[1].file>>
               /\ jobDescription'.core = inflight[1].job_description.core
               /\ jobDescription'.core >= 50
               /\ ~analysis'.analyzing
               /\ ~AnalyzeDisabled']_vars

C18_Witness ==
    /\ event.op = "analysisSettled"
    /\ event.arg[1].net = "unparsable"
    /\ analysis = InitialAnalysis
    /\ file # None
    /\ jobDescription = Str(1, 50, 0)
    /\ ~AnalyzeDisabled

\* C19: whenever the results view is displayed, the analysis on display is
\* the one of the file and of the job description that the page holds.
C19_ResultsOfCurrentInputs ==
    analysis.results # <<>>
        => /\ file = <<analysis.results[1].resume>>
           /\ jobDescription.core = analysis.results[1].job.core

\* C20: onUploadSuccess is called only by the step that handles the
\* response of an upload, once, only for a JSON body with success true and
\* with that body's file_id; every other response calls nothing and sets
\* uploadedFile to null; and each upload attempt is answered once.
C20_FileIdOnlyOnSuccess ==
    [][/\ event'.op = "onDrop" => calls' = <<>>
       /\ event'.op = "uploadSettled"
            => /\ Len(calls') <= 1
               /\ \A i \in 1..Len(calls') :
                    /\ calls'[i].callback = "onUploadSuccess"
                    /\ event'.arg[1].net = "json"
                    /\ event'.arg[1].success
                    /\ calls'[i].arg = event'.arg[1].file_id
                    /\ calls'[i].arg # <<>>
       /\ event'.op = "uploadSettled"
            => /\ BagCardinality(uploads') = BagCardinality(uploads) - 1
               /\ IF event'.arg[1].net = "json" /\ event'.arg[1].success
                  THEN /\ Len(calls') = 1
                       /\ calls'[1].callback = "onUploadSuccess"
                       /\ uploadedFile' = uploadedFile
                  ELSE /\ calls' = <<>>
                       /\ uploadedFile' = <<>>]_vars

C20_Witness ==
    /\ event.op = "uploadSettled"
    /\ event.arg[1].success
    /\ calls = <<[callback |-> "onUploadSuccess", arg |-> Some("file_id")]>>
    /\ uploadedFile # None
    /\ ~isUploading
    /\ uploads = EmptyBag

\* ResumeUpload alone, with every pending upload request answered in the end.
SpecUploadFair ==
    /\ Init
    /\ [][UploadNext]_vars
    /\ WF_vars(\E f \in BagToSet(uploads) : \E r \in UploadResponses :
                  UploadSettles(f, r) /\ UNCHANGED notUpload)

\* C21: whenever ResumeUpload is busy (isUploading is true, the view reads
\* "Uploading and parsing resume..."), it is later not busy, whatever the
\* upload is answered with, provided the pending requests are answered.
C21_UploadingEnds == isUploading ~> ~isUploading

C21_Witness ==
    /\ event.op = "uploadSettled"
    /\ event.arg[1].net \in {"rejected", "unparsable"}
    /\ ~isUploading
    /\ uploads = EmptyBag
    /\ ErrorToasts(toasts) # {}

\* C22: ResumeUpload is busy exactly while an upload request is pending,
\* and at most one request is pending at a time: no onDrop starts a second
\* request during the first, and no answer clears isUploading while another
\* request is still pending.
C22_BusyIffOneInFlight ==
    /\ isUploading <=> uploads # EmptyBag
    /\ BagCardinality(uploads) <= 1

\* C23: when ResumeUpload shows "Resume uploaded successfully!" (not busy,
\* uploadedFile set), no upload of the file it names is still pending; in
\* particular not when the answer that ended the busy state was the answer
\* to the upload of another file.
C23_SuccessViewOnlyAfterSuccess ==
    (/\ ~isUploading
     /\ uploadedFile # None
     /\ event.op = "uploadSettled"
     /\ event.arg[2] # uploadedFile[1])
        => ~BagIn(uploadedFile[1], uploads)

\* C24: the step that handles the answer to a validation request calls
\* onSubmit exactly when the answer has success true, with the object that
\* was sent, and shows no error then; on every other answer it calls nothing
\* and shows an error toast; in both cases isValidating is false afterwards.
\* No other step calls onSubmit, the object sent is the one built from the
\* form's values at the submit, and no request starts while isValidating is
\* true, so at most one is pending.
C24_OnSubmitAfterValidation ==
    [][/\ event'.op = "validationSettled"
            => /\ jdPending # <<>>
               /\ jdPending' = Tail(jdPending)
               /\ ~jdForm'.isValidating
               /\ IF event'.arg[1].network = "json" /\ event'.arg[1].success
                  THEN /\ calls' = <<[callback |-> "onSubmit",
                                      arg |-> Head(jdPending)]>>
                       /\ ErrorToasts(toasts') = {}
                  ELSE /\ calls' = <<>>
                       /\ ErrorToasts(toasts') # {}
       /\ event'.op # "validationSettled"
            => \A i \in 1..Len(calls') : calls'[i].callback # "onSubmit"
       /\ (event'.op # "validationSettled" /\ jdPending' # jdPending)
            => /\ ~jdForm.isValidating
               /\ jdForm'.isValidating
               /\ jdPending' = <<JdPayload(jdForm.values)>>
       /\ jdForm.isValidating <=> jdPending # <<>>]_vars

C24_Witness ==
    /\ event.op = "validationSettled"
    /\ ~jdForm.isValidating
    /\ Len(calls) = 1
    /\ calls[1].callback = "onSubmit"
    /\ calls[1].arg # JdPayload(jdForm.values)
    /\ jdPending = <<>>

\* C25: the skill lists of the object that onFormSubmit builds hold no
\* empty string and no entry with whitespace at either end, hold the
\* non-empty entries of the input in the input's order, and are empty for an
\* empty field.
C25_SkillListsClean ==
    [][(event'.op # "validationSettled" /\ jdPending' # jdPending)
          => \A k \in {"required_skills", "preferred_skills"} :
               LET text == jdForm.values[k]
                   list == jdPending'[1][k]
                   trimmed == [j \in 1..Len(text) |-> Trim(text[j])]
               IN /\ \A j \in 1..Len(list) :
                       /\ list[j] # EmptyStr
                       /\ list[j].lead = 0
                       /\ list[j].trail = 0
                  /\ list = SelectSeq(trimmed, LAMBDA e : e # EmptyStr)
                  /\ text = <<EmptyStr>> => list = <<>>]_vars

\* C26: the description rule of JobDescriptionForm and the guards of
\* Home.handleAnalyze accept the same texts: whatever description the form
\* holds, it passes the one exactly when it passes the other.
C26_SameDescriptionsAccepted ==
    (jdRule("description", jdForm.values.description) = None)
        <=> handleAnalyzeAccepts(jdForm.values.description)

\* What C27 says a field accepts: the empty string, and otherwise a string
\* that parses as a URL and, for the LinkedIn and GitHub fields, contains
\* the platform's domain.
UrlAccepted(f, v) ==
    \/ v.empty
    \/ /\ v.parses
       /\ f = "linkedin_url" => v.linkedin
       /\ f = "github_url" => v.github

\* C27: whenever the form validates a field (on a change after the first
\* submit, and on every submit), the field is left without an error exactly
\* when it holds an accepted value, and a value that does not parse as a URL
\* gets 'Please enter a valid URL' whatever the platform; onSubmit is called
\* only by a submit, only when all three fields hold accepted values, and
\* with the form's values.
C27_ValidatorsAccept ==
    [][/\ (event'.op = "setUrlField" /\ urlForm.isSubmitted)
            => LET f == event'.arg[1]
                   v == event'.arg[2]
               IN /\ urlForm'.errors[f] = None <=> UrlAccepted(f, v)
                  /\ (~v.empty /\ ~v.parses)
                       => urlForm'.errors[f] = Some("Please enter a valid URL")
       /\ (event'.op \in {"clickContinue", "pressEnter"} /\ urlForm'.isSubmitted
             /\ ~ContinueDisabled /\ NativeUrlsValid(urlForm.values))
            => \A f \in urlFields :
                 urlForm'.errors[f] = None <=> UrlAccepted(f, urlForm.values[f])
       /\ \A i \in 1..Len(calls') :
            calls'[i].callback = "onSubmit"
              => /\ event'.op \in {"clickContinue", "pressEnter"}
                 /\ \A f \in urlFields : UrlAccepted(f, urlForm.values[f])
                 /\ calls'[i].arg = urlForm.values]_vars

C27_Witness ==
    /\ event.op = "setUrlField"
    /\ urlForm.isSubmitted
    /\ event.arg[1] = "linkedin_url"
    /\ ~event.arg[2].empty
    /\ ~event.arg[2].parses
    /\ ~event.arg[2].linkedin
    /\ urlForm.errors["linkedin_url"] = Some("Please enter a valid URL")
    /\ urlForm.errors["github_url"] = Some("Please enter a valid GitHub URL")

\* The tabs of AnalysisResults over the profile enrichment of an analysis.
SpecEnrichmentTab == Init /\ [][EnrichmentTabNext]_vars

\* C28: while the Profile Enrichment tab is the active one it shows
\* something: the GitHub section, the Portfolio section or the message 'No
\* profile enrichment data available'; and it shows the message only when
\* it shows no section.
C28_EnrichmentTabNeverEmpty ==
    (enrichmentTab # None /\ enrichmentTab[1].activeTab = "enrichment")
        => LET shown == {enrichmentTab[1].sections[i].section :
                            i \in 1..Len(enrichmentTab[1].sections)}
           IN /\ shown # {}
              /\ "No profile enrichment data available" \in shown
                   => shown = {"No profile enrichment data available"}

\* ProgressSteps above the first step of the wizard, ResumeUpload; the
\* parent may pass any step number.
SpecSteps == Init /\ [][ProgressNext \/ UploadNext]_vars

\* C29: in what ProgressSteps shows, a step is completed exactly when its
\* id is below currentStep and current exactly when its id is currentStep;
\* a completed step shows the check mark; the connector after a step (every
\* step but the last has one) is highlighted exactly when the step is
\* completed; and for currentStep from 1 to 4 exactly one step is current,
\* every step before it is completed, and no step after it is completed or
\* current.
C29_StepsConsistent ==
    /\ Len(progress) = Len(steps)
    /\ \A i \in 1..Len(steps) :
         /\ progress[i].isCompleted <=> steps[i].id < currentStep
         /\ progress[i].isCurrent <=> steps[i].id = currentStep
         /\ progress[i].icon = "CheckCircle" <=> progress[i].isCompleted
         /\ progress[i].connector # None <=> i < Len(steps)
         /\ progress[i].connector # None
              => (progress[i].connector = Some("bg-primary-600")
                    <=> progress[i].isCompleted)
    /\ currentStep \in 1..Len(steps)
         => /\ Cardinality({i \in 1..Len(steps) : progress[i].isCurrent}) = 1
            /\ \A i \in 1..Len(steps) :
                 /\ steps[i].id < currentStep => progress[i].isCompleted
                 /\ steps[i].id > currentStep
                      => ~progress[i].isCompleted /\ ~progress[i].isCurrent

C29_Witness ==
    /\ event.op = "renderProgressSteps"
    /\ currentStep = 3
    /\ progress[3].isCurrent
    /\ progress[2].connector = Some("bg-primary-600")
    /\ progress[3].connector = Some("bg-gray-300")
    /\ progress[4].connector = None

====
